---- MODULE Spec2Model ----
(***************************************************************************)
(* A model of the gyb generation / verification core of build-script.py:   *)
(* generate_single_gyb_file, generate_gyb_files_helper,                    *)
(* generate_syntax_node_template_gyb_files, generate_gyb_files,            *)
(* clear_gyb_files_from_previous_run, verify_generated_files and           *)
(* check_generated_files_match, driven by the generate-source-code and     *)
(* verify-source-code commands.                                            *)
(*                                                                         *)
(* A file name is the sequence of its dot-separated tokens, every token    *)
(* but the first carrying its dot: "A.swift.gyb" is                        *)
(* <<"A", ".swift", ".gyb">> and ".DS_Store" is <<".DS_Store">>.  A        *)
(* directory path is a sequence of directory names.                        *)
(***************************************************************************)
EXTENDS Integers, Sequences, FiniteSets, TLC

VARIABLES
    tools,      \* external tools present in the environment: "gyb", "rsync"
    src,        \* src[d]: the *.gyb files of Sources/<d>
    broken,     \* render units (<<gyb path, flags>>) on which gyb exits non-zero
    denied,     \* destination files (<<dir, name>>) that can be neither removed
                \* nor written: rm and a writing rsync exit non-zero on them
    fs,         \* destination directories: path -> (file name -> content)
    scratch,    \* files of tempfile.gettempdir(): file name -> content
    inflight,   \* <<dir, name>>: rsync is transferring scratch/name into its
                \* temporary file of dir, to be renamed to dir/name
    runs,       \* number of commands started so far
    cmd,        \* the command being executed, "none" when idle
    ann,        \* add_source_locations of the running generate_gyb_files
    pc,         \* position of the main thread
    batch,      \* index of the running generate_gyb_files_helper call, 1..4
    tasks,      \* futures of the running pool: gyb file -> status
    kind,       \* index of the base kind being generated, 1..6
    copied,     \* <<dir, name>> written by rsync in the current/latest run: the
                \* files whose content and modification time the run has set
    deleted,    \* <<dir, name>> removed by rm in the current/latest run
    raised,     \* commands that raised CalledProcessError in the current/latest run
    reported,   \* commands printed by fail_for_called_process_error
    last,       \* the latest finished command: [cmd, ann, exit]
    edited      \* the source tree was edited since the latest command

vars == <<tools, src, broken, denied, fs, scratch, inflight, runs, cmd, ann, pc, batch,
          tasks, kind, copied, deleted, raised, reported, last, edited>>

-----------------------------------------------------------------------------
(* Bounds of the model.                                                    *)

\* commands run in one session
MaxRuns == 2
\* *.gyb templates in the initial source tree
MaxTemplates == 2
\* anomalies of the initial state: files already in the destination trees or
\* destination files that cannot be written (one anomaly when the same file
\* is both), templates gyb fails on
MaxAnomalies == 1

-----------------------------------------------------------------------------
(* Constants of the script.                                                *)

SWIFTSYNTAX_DIR == <<"Sources", "SwiftSyntax">>
SWIFTSYNTAXBUILDER_DIR == <<"Sources", "SwiftSyntaxBuilder">>
SWIFTSYNTAXPARSER_DIR == <<"Sources", "SwiftSyntaxParser">>
SWIFTSYNTAXBUILDERGENERATION_DIR == <<"Sources", "SwiftSyntaxBuilderGeneration">>

\* the sources_dir arguments of the four generate_gyb_files_helper calls, in
\* call order
HelperSources ==
    << SWIFTSYNTAX_DIR, SWIFTSYNTAXBUILDER_DIR, SWIFTSYNTAXPARSER_DIR,
       SWIFTSYNTAXBUILDERGENERATION_DIR >>

SourceDirs == { HelperSources[i] : i \in DOMAIN HelperSources }

\* dict iteration order of BASE_KIND_FILES
BaseKinds == << "Decl", "Expr", "Pattern", "Stmt", "Syntax", "Type" >>

BASE_KIND_FILES ==
    [ Decl    |-> << "SyntaxDeclNodes", ".swift" >>,
      Expr    |-> << "SyntaxExprNodes", ".swift" >>,
      Pattern |-> << "SyntaxPatternNodes", ".swift" >>,
      Stmt    |-> << "SyntaxStmtNodes", ".swift" >>,
      Syntax  |-> << "SyntaxNodes", ".swift" >>,
      Type    |-> << "SyntaxTypeNodes", ".swift" >> ]

BaseKindFileValues == { BASE_KIND_FILES[k] : k \in DOMAIN BASE_KIND_FILES }

\* SWIFTSYNTAX_DIR/SyntaxNodes.swift.gyb.template
TemplateGybFile == << "SyntaxNodes", ".swift", ".gyb", ".template" >>

None == << >>

-----------------------------------------------------------------------------
(* Paths and names.                                                        *)

\* os.path.join(dir, name) for a directory name
Join(dir, name) == Append(dir, name)

\* str.endswith(suffix) for a suffix that is one token
EndsWith(name, suffix) == Len(name) >= 1 /\ name[Len(name)] = suffix

\* the output named by the part of gyb_file before its first dot
OutputFileNameStem(gyb_file) == << gyb_file[1] >>

\* gyb_file[:-4] for a name ending in ".gyb": the four characters of the
\* last token are sliced off
OutputFileName(gyb_file) == SubSeq(gyb_file, 1, Len(gyb_file) - 1)

\* previous_gyb_gen_file + ".gyb"
GybFileOf(previous_gyb_gen_file) == previous_gyb_gen_file \o << ".gyb" >>

\* a name matching diff's --exclude pattern ".*"
IsDotFile(name) == Len(name) >= 1 /\ name[1] \in { ".DS_Store", ".swift", ".gyb", ".h" }

\* tempfile.mkdtemp() of verify_generated_files for the tree of sources_dir
SelfGeneratedDir(sources_dir) == << "tmp", sources_dir[2] >>

\* os.path.join(sources_dir, "gyb_generated")
UserGeneratedDir(sources_dir) == Join(sources_dir, "gyb_generated")

UserDirs ==
    { UserGeneratedDir(s) : s \in SourceDirs }
        \cup { Join(UserGeneratedDir(SWIFTSYNTAX_DIR), "syntax_nodes") }

-----------------------------------------------------------------------------
(* The file system.                                                        *)

EmptyDir == [ n \in {} |-> n ]

\* a file whose content no template renders
StaleContent == [ tmpl |-> << >>, flags |-> << >> ]

\* a file that holds only the beginning of the content of file
Truncated(file) == [ tmpl |-> file.tmpl, flags |-> file.flags, truncated |-> TRUE ]

\* the names of the subdirectories of dir
SubDirs(f, dir) ==
    { q[Len(q)] : q \in { p \in DOMAIN f :
                            /\ Len(p) = Len(dir) + 1
                            /\ SubSeq(p, 1, Len(dir)) = dir } }

\* os.listdir(dir): files and subdirectories
ListDir(f, dir) == DOMAIN f[dir] \cup { << s >> : s \in SubDirs(f, dir) }

\* the entries of a source directory that are no *.gyb template
FixedSourceEntries(sources_dir) ==
    IF sources_dir = SWIFTSYNTAX_DIR
        THEN { TemplateGybFile, << "gyb_generated" >> }
        ELSE { << "gyb_generated" >> }

\* os.listdir(sources_dir)
SourceListing(s, sources_dir) == s[sources_dir] \cup FixedSourceEntries(sources_dir)

\* make_dir_if_needed(path)
make_dir_if_needed(f, path) ==
    IF path \in DOMAIN f THEN f ELSE f @@ (path :> EmptyDir)

\* the content is written over every file of the directory, as by a copy to
\* a wildcard
PutFileAll(dir, name, file) == [ n \in DOMAIN dir \cup { name } |-> file ]

PutFile(dir, name, file) ==
    [ n \in DOMAIN dir \cup { name } |-> IF n = name THEN file ELSE dir[n] ]

RemoveFile(dir, name) == [ n \in DOMAIN dir \ { name } |-> dir[n] ]

\* rm name, run with cwd = dir
Rm(f, dir, name) == [ f EXCEPT ![dir] = RemoveFile(@, name) ]

-----------------------------------------------------------------------------
(* Commands handed to check_call.                                          *)

Command(tool, file, out, flags) ==
    [ tool |-> tool, file |-> file, out |-> out, flags |-> flags ]

\* line_directive_flags of generate_single_gyb_file
LineDirectiveFlags(add_source_locations) ==
    IF add_source_locations THEN << >> ELSE << "--line-directive=" >>

\* "-DEMIT_KIND=%s" % base_kind
EmitKindFlag(base_kind) == "-DEMIT_KIND=" \o base_kind

\* gyb_command of generate_single_gyb_file
GybCommand(gyb_file, output_file_name, add_source_locations, additional_gyb_flags) ==
    Command("gyb", gyb_file, output_file_name,
            LineDirectiveFlags(add_source_locations) \o additional_gyb_flags)

\* rsync_command of generate_single_gyb_file
RsyncCommand(output_file_name, destination) ==
    Command("rsync", << destination, output_file_name >>, output_file_name,
            << "--checksum" >>)

RmCommand(name, cwd) == Command("rm", << cwd, name >>, << >>, << >>)

DiffCommand(self_generated_dir, user_generated_dir) ==
    Command("diff", << self_generated_dir, user_generated_dir >>, << >>,
            << "--recursive", "--exclude", ".*", "--context=0" >>)

\* the render unit of a gyb command: the template and the flags that select
\* what is emitted
UnitOf(gyb_file, additional_gyb_flags) == << gyb_file, additional_gyb_flags >>

\* gyb exits non-zero on the command
GybFails(b, gyb_file, additional_gyb_flags) ==
    UnitOf(gyb_file, additional_gyb_flags) \in b

\* what gyb writes to its -o file
GybOutput(gyb_command) ==
    [ tmpl |-> gyb_command.file, flags |-> gyb_command.flags ]

\* rsync run without --checksum and with --ignore-times: every file is
\* transferred
RsyncWritesAlways(f, scr, name, destination) == TRUE

\* rsync --checksum scratch/name destination/name transfers the file: the
\* destination file is absent or its checksum differs
RsyncWrites(f, scr, name, destination) ==
    ~(name \in DOMAIN f[destination] /\ f[destination][name] = scr[name])

\* rsync run with --ignore-existing: a file the destination already holds is
\* never updated
RsyncIgnoreExisting(f, scr, name, destination) ==
    IF name \in DOMAIN f[destination]
        THEN f
        ELSE [ f EXCEPT ![destination] = PutFile(@, name, scr[name]) ]

\* the destination tree after rsync --checksum scratch/name destination/name
Rsync(f, scr, name, destination) ==
    IF RsyncWrites(f, scr, name, destination)
        THEN [ f EXCEPT ![destination] = PutFile(@, name, scr[name]) ]
        ELSE f

\* rsync run with --inplace: the data is written into the destination file
\* itself, which is truncated until the transfer is over
RsyncTransferInplace(f, scr, name, destination) ==
    [ f EXCEPT ![destination] = PutFile(@, name, Truncated(scr[name])) ]

\* the destination tree while rsync transfers scratch/name: rsync_command has
\* no --inplace, so the data goes to a temporary file .name.XXXXXX of the
\* destination directory, a hidden file that no step lists, removes or
\* compares; destination/name is only replaced by the final rename
RsyncTransfer(f, scr, name, destination) == f

\* rsync starts a transfer: it has a file to write and can write it
RsyncTransfers(den, f, scr, name, destination) ==
    /\ RsyncWrites(f, scr, name, destination)
    /\ << destination, name >> \notin den

\* rsync exits non-zero: it has to write a file it cannot write
RsyncFails(den, f, scr, name, destination) ==
    RsyncWrites(f, scr, name, destination) /\ << destination, name >> \in den

\* rm exits non-zero
RmFails(den, dir, name) == << dir, name >> \in den

-----------------------------------------------------------------------------
(* Destinations.                                                           *)

\* generate_gyb_files called without its destination arguments
DestinationArgDefault(command, sources_dir) == None

\* the destination argument generate_gyb_files receives for sources_dir:
\* generate_source_code_command passes none, verify_generated_files passes
\* its temporary directories
DestinationArg(command, sources_dir) ==
    IF command = "verify" THEN SelfGeneratedDir(sources_dir) ELSE None

\* destination_dir of generate_gyb_files_helper after its default is applied
HelperDestination(sources_dir, destination_dir) ==
    IF destination_dir = None
        THEN Join(sources_dir, "gyb_generated")
        ELSE destination_dir

\* the base kind files written next to the outputs of the first helper, with
\* no syntax_nodes directory of their own
TemplateDestinationFlat(destination_dir) ==
    IF destination_dir = None
        THEN Join(SWIFTSYNTAX_DIR, "gyb_generated")
        ELSE destination_dir

\* template_destination of generate_syntax_node_template_gyb_files
TemplateDestination(destination_dir) ==
    Join(IF destination_dir = None
            THEN Join(SWIFTSYNTAX_DIR, "gyb_generated")
            ELSE destination_dir,
         "syntax_nodes")

\* the destination of the i-th generate_gyb_files_helper call of generate_gyb_files
BatchDestination(command, i) ==
    HelperDestination(HelperSources[i], DestinationArg(command, HelperSources[i]))

\* the destination generate_gyb_files hands to
\* generate_syntax_node_template_gyb_files
ExpansionDestination(command) ==
    TemplateDestination(DestinationArg(command, SWIFTSYNTAX_DIR))

-----------------------------------------------------------------------------
(* Pruning and discovery.                                                  *)

\* the files clear_gyb_files_from_previous_run removes
StaleGybFiles(f, s, sources_dir, destination_dir) ==
    { previous_gyb_gen_file \in ListDir(f, destination_dir) :
        /\ EndsWith(previous_gyb_gen_file, ".swift")
        /\ GybFileOf(previous_gyb_gen_file) \notin SourceListing(s, sources_dir) }

\* the prune loop without its BASE_KIND_FILES test
StaleTemplateFilesUnlisted(f, template_destination) ==
    { previous_gyb_gen_file \in ListDir(f, template_destination) :
        EndsWith(previous_gyb_gen_file, ".swift") }

\* the files the prune loop of generate_syntax_node_template_gyb_files removes
StaleTemplateFiles(f, template_destination) ==
    { previous_gyb_gen_file \in ListDir(f, template_destination) :
        /\ EndsWith(previous_gyb_gen_file, ".swift")
        /\ previous_gyb_gen_file \notin BaseKindFileValues }

\* clear_gyb_files_from_previous_run is skipped
NothingToClear(f, s, sources_dir, destination_dir) == TRUE

\* the loop of clear_gyb_files_from_previous_run has nothing left to remove:
\* the function returns
ClearDone(f, s, sources_dir, destination_dir) ==
    StaleGybFiles(f, s, sources_dir, destination_dir) = {}

\* gyb_files of generate_gyb_files_helper
GybFiles(s, sources_dir) ==
    { file \in SourceListing(s, sources_dir) : EndsWith(file, ".gyb") }

-----------------------------------------------------------------------------
(* Comparing trees.                                                        *)

RECURSIVE TreesMatch(_, _, _)
\* diff --recursive --exclude ".*" a b finds no difference
TreesMatch(f, a, b) ==
    LET fa == { n \in DOMAIN f[a] : ~IsDotFile(n) }
        fb == { n \in DOMAIN f[b] : ~IsDotFile(n) }
        sa == SubDirs(f, a)
        sb == SubDirs(f, b)
    IN  /\ fa = fb
        /\ \A n \in fa : f[a][n] = f[b][n]
        /\ sa = sb
        /\ \A s \in sa : TreesMatch(f, Join(a, s), Join(b, s))

\* diff run without --recursive: subdirectories are not compared
DiffNotRecursive(f, a, b) ==
    LET fa == { n \in DOMAIN f[a] : ~IsDotFile(n) }
        fb == { n \in DOMAIN f[b] : ~IsDotFile(n) }
    IN  fa = fb /\ \A n \in fa : f[a][n] = f[b][n]

\* check_generated_files_match(self_generated_dir, user_generated_dir)
\* returns without raising
check_generated_files_match(f, self_generated_dir, user_generated_dir) ==
    TreesMatch(f, self_generated_dir, user_generated_dir)

-----------------------------------------------------------------------------
(* Initial states: the source trees, destination trees and environments    *)
(* the commands are run on.                                                *)

A_swift_gyb == << "A", ".swift", ".gyb" >>
A_h_gyb == << "A", ".h", ".gyb" >>

\* where the initial source tree may hold a template
TemplateSlots ==
    { << SWIFTSYNTAX_DIR, A_swift_gyb >>,
      << SWIFTSYNTAX_DIR, A_h_gyb >>,
      << SWIFTSYNTAXBUILDER_DIR, A_swift_gyb >> }

\* where the initial destination trees may hold a file
StraySlots ==
    { << UserGeneratedDir(SWIFTSYNTAX_DIR), << "A", ".swift" >> >>,
      << UserGeneratedDir(SWIFTSYNTAX_DIR), BASE_KIND_FILES["Syntax"] >>,
      << UserGeneratedDir(SWIFTSYNTAXBUILDER_DIR), << ".DS_Store" >> >>,
      << UserGeneratedDir(SWIFTSYNTAXPARSER_DIR), << "B", ".h" >> >>,
      << TemplateDestination(None), << "Old", ".swift" >> >>,
      << TemplateDestination(None), BASE_KIND_FILES["Expr"] >> }

\* the destination files that may be unwritable, absent or present
DeniedSlots ==
    { << UserGeneratedDir(SWIFTSYNTAX_DIR), << "A", ".swift" >> >>,
      << TemplateDestination(None), << "Old", ".swift" >> >>,
      << TemplateDestination(None), BASE_KIND_FILES["Expr"] >> }

\* the base kinds whose rendering may fail
FailableKinds == { "Expr" }

SourceTrees ==
    { [ d \in SourceDirs |-> { t[2] : t \in { x \in T : x[1] = d } } ] :
        T \in { T \in SUBSET TemplateSlots : Cardinality(T) <= MaxTemplates } }

\* the destination trees holding the files S, with content no template renders
InitialTree(S) ==
    [ d \in { UserGeneratedDir(sd) : sd \in SourceDirs } \cup { x[1] : x \in S } |->
        [ n \in { x[2] : x \in { y \in S : y[1] = d } } |-> StaleContent ] ]

\* the render units of a source tree
Units(s) ==
    { UnitOf(x, << >>) : x \in { y \in TemplateSlots : y[2] \in s[y[1]] } }
        \cup { UnitOf(<< SWIFTSYNTAX_DIR, TemplateGybFile >>, << EmitKindFlag(k) >>) :
                 k \in FailableKinds }

NoCommand == [ cmd |-> "none", ann |-> FALSE, exit |-> 0 ]

NoTasks == [ g \in {} |-> "queued" ]

\* the executor is shut down with wait=False
ShutdownNoWait(t) == TRUE

\* ThreadPoolExecutor.__exit__ returns: shutdown(wait=True) has joined the
\* workers, every task has finished
Shutdown(t) == \A g \in DOMAIN t : t[g] \in { "done", "raised" }

Init ==
    /\ tools \in SUBSET { "gyb", "rsync" }
    /\ src \in SourceTrees
    /\ broken \in SUBSET Units(src)
    /\ denied \in SUBSET DeniedSlots
    /\ \E S \in SUBSET StraySlots :
         /\ Cardinality(S \cup denied) + Cardinality(broken) <= MaxAnomalies
         /\ fs = InitialTree(S)
    /\ scratch = EmptyDir
    /\ inflight = {}
    /\ runs = 0
    /\ cmd = "none"
    /\ ann = FALSE
    /\ pc = "idle"
    /\ batch = 0
    /\ tasks = NoTasks
    /\ kind = 0
    /\ copied = {}
    /\ deleted = {}
    /\ raised = {}
    /\ reported = {}
    /\ last = NoCommand
    /\ edited = FALSE

-----------------------------------------------------------------------------
(* The commands.                                                           *)

\* the command ends with the given exit status
Exit(status) ==
    /\ pc' = "idle"
    /\ cmd' = "none"
    /\ ann' = FALSE
    /\ batch' = 0
    /\ tasks' = NoTasks
    /\ kind' = 0
    /\ last' = [ cmd |-> cmd, ann |-> ann, exit |-> status ]
    /\ edited' = FALSE

\* a CalledProcessError raised by check_call(command) reaches the command
\* function: generate_source_code_command prints the command through
\* fail_for_called_process_error, verify_source_code_command prints a fixed
\* message; both exit 1
Raise(command) ==
    /\ raised' = raised \cup { command }
    /\ reported' = IF cmd = "generate" THEN reported \cup { command } ELSE reported
    /\ Exit(1)

\* generate_gyb_files without check_gyb_exec and check_rsync
EnvironmentUnchecked(t) == TRUE

\* check_gyb_exec and check_rsync pass
ChecksPass(t) == "gyb" \in t /\ "rsync" \in t

\* what the process of a command writes to its standard output and error
Output(command) == << "output of", command.tool, command.file >>

\* the CalledProcessError subprocess.check_call raises for a command that
\* exits non-zero: check_call passes no pipe to the process, whose output goes
\* to the terminal of the script, so the error carries no output
CalledProcessError(command) == [ cmd |-> command, output |-> None ]

\* the lines fail_for_called_process_error prints for error
fail_for_called_process_error(error) ==
    [ executing |-> error.cmd, output |-> error.output ]

\* what fail_for_called_process_error has printed in the current/latest run
Printed == { fail_for_called_process_error(CalledProcessError(c)) : c \in reported }

\* generate_gyb_files up to the first clear_gyb_files_from_previous_run:
\* the environment checks, then the make_dir_if_needed of the first helper
EnterGenerateGybFiles(command, add_source_locations, f) ==
    IF ChecksPass(tools)
        THEN /\ fs' = make_dir_if_needed(f, BatchDestination(command, 1))
             /\ pc' = "clear"
             /\ batch' = 1
             /\ cmd' = command
             /\ ann' = add_source_locations
             /\ UNCHANGED << tasks, kind, last, edited >>
        ELSE \* fatal_error: SystemExit(1)
             /\ fs' = f
             /\ pc' = "idle"
             /\ cmd' = "none"
             /\ ann' = FALSE
             /\ last' = [ cmd |-> command, ann |-> add_source_locations, exit |-> 1 ]
             /\ edited' = FALSE
             /\ UNCHANGED << batch, tasks, kind >>

StartRun ==
    /\ pc = "idle"
    /\ runs < MaxRuns
    /\ runs' = runs + 1
    /\ copied' = {}
    /\ deleted' = {}
    /\ raised' = {}
    /\ reported' = {}

\* generate_source_code_command, up to the first prune
generate_source_code_command(add_source_locations) ==
    /\ StartRun
    /\ EnterGenerateGybFiles("generate", add_source_locations, fs)
    /\ UNCHANGED << tools, src, broken, denied, scratch, inflight >>

\* the four tempfile.mkdtemp() of verify_generated_files: fresh, empty
\* directories
MkdTemps(f) ==
    [ d \in { p \in DOMAIN f : p[1] # "tmp" }
              \cup { SelfGeneratedDir(sd) : sd \in SourceDirs } |->
        IF d[1] = "tmp" THEN EmptyDir ELSE f[d] ]

\* verify_source_code_command, up to the first prune of the generate_gyb_files
\* that verify_generated_files calls with add_source_locations=False
verify_source_code_command ==
    /\ StartRun
    /\ EnterGenerateGybFiles("verify", FALSE, MkdTemps(fs))
    /\ UNCHANGED << tools, src, broken, denied, scratch, inflight >>

-----------------------------------------------------------------------------
(* generate_gyb_files_helper.                                              *)

\* clear_gyb_files_from_previous_run: one rm of its loop
ClearRm ==
    /\ pc = "clear"
    /\ \E f \in StaleGybFiles(fs, src, HelperSources[batch], BatchDestination(cmd, batch)) :
         IF RmFails(denied, BatchDestination(cmd, batch), f)
           THEN /\ Raise(RmCommand(f, BatchDestination(cmd, batch)))
                /\ UNCHANGED << fs, deleted >>
           ELSE /\ fs' = Rm(fs, BatchDestination(cmd, batch), f)
                /\ deleted' = deleted \cup { << BatchDestination(cmd, batch), f >> }
                /\ UNCHANGED << cmd, ann, pc, batch, tasks, kind, raised, reported,
                                last, edited >>
    /\ UNCHANGED << tools, src, broken, denied, scratch, inflight, runs, copied >>

\* the loop of clear_gyb_files_from_previous_run is over; executor.map
\* submits one task per gyb file
Submit ==
    /\ pc = "clear"
    /\ ClearDone(fs, src, HelperSources[batch], BatchDestination(cmd, batch))
    /\ tasks' = [ g \in GybFiles(src, HelperSources[batch]) |-> "queued" ]
    /\ pc' = "pool"
    /\ UNCHANGED << tools, src, broken, denied, fs, scratch, inflight, runs, cmd, ann, batch,
                    kind, copied, deleted, raised, reported, last, edited >>

\* a worker runs the gyb step of generate_single_gyb_file for gyb_file; an
\* exception is stored in the task's future
WorkerGyb(gyb_file) ==
    /\ pc = "pool"
    /\ gyb_file \in DOMAIN tasks
    /\ tasks[gyb_file] = "queued"
    /\ LET gyb_file_path == << HelperSources[batch], gyb_file >>
           output_file_name == OutputFileName(gyb_file)
           gyb_command == GybCommand(gyb_file_path, output_file_name, ann, << >>)
       IN  IF GybFails(broken, gyb_file_path, << >>)
             THEN /\ tasks' = [ tasks EXCEPT ![gyb_file] = "raised" ]
                  /\ raised' = raised \cup { gyb_command }
                  /\ UNCHANGED scratch
             ELSE /\ tasks' = [ tasks EXCEPT ![gyb_file] = "generated" ]
                  /\ scratch' = PutFile(scratch, output_file_name, GybOutput(gyb_command))
                  /\ UNCHANGED raised
    /\ UNCHANGED << tools, src, broken, denied, fs, inflight, runs, cmd, ann, pc, batch, kind,
                    copied, deleted, reported, last, edited >>

\* a worker starts the rsync step of generate_single_gyb_file for gyb_file:
\* rsync has a file to write and transfers it
WorkerTransfer(gyb_file) ==
    /\ pc = "pool"
    /\ gyb_file \in DOMAIN tasks
    /\ tasks[gyb_file] = "generated"
    /\ LET output_file_name == OutputFileName(gyb_file)
           destination == BatchDestination(cmd, batch)
       IN  /\ << destination, output_file_name >> \notin inflight
           /\ RsyncTransfers(denied, fs, scratch, output_file_name, destination)
           /\ inflight' = inflight \cup { << destination, output_file_name >> }
           /\ fs' = RsyncTransfer(fs, scratch, output_file_name, destination)
    /\ UNCHANGED << tools, src, broken, denied, scratch, runs, cmd, ann, pc, batch,
                    tasks, kind, copied, deleted, raised, reported, last, edited >>

\* the rsync step of generate_single_gyb_file for gyb_file ends: rsync has
\* renamed its temporary file, or had nothing to write, or has failed
WorkerRsync(gyb_file) ==
    /\ pc = "pool"
    /\ gyb_file \in DOMAIN tasks
    /\ tasks[gyb_file] = "generated"
    /\ LET output_file_name == OutputFileName(gyb_file)
           destination == BatchDestination(cmd, batch)
       IN  /\ \/ << destination, output_file_name >> \in inflight
              \/ ~RsyncTransfers(denied, fs, scratch, output_file_name, destination)
           /\ inflight' = inflight \ { << destination, output_file_name >> }
           /\ IF RsyncFails(denied, fs, scratch, output_file_name, destination)
             THEN /\ tasks' = [ tasks EXCEPT ![gyb_file] = "raised" ]
                  /\ raised' = raised \cup { RsyncCommand(output_file_name, destination) }
                  /\ UNCHANGED << fs, copied >>
             ELSE /\ fs' = Rsync(fs, scratch, output_file_name, destination)
                  /\ copied' = IF RsyncWrites(fs, scratch, output_file_name, destination)
                                 THEN copied \cup { << destination, output_file_name >> }
                                 ELSE copied
                  /\ tasks' = [ tasks EXCEPT ![gyb_file] = "done" ]
                  /\ UNCHANGED raised
    /\ UNCHANGED << tools, src, broken, denied, scratch, runs, cmd, ann, pc, batch,
                    kind, deleted, reported, last, edited >>

\* the with block of the executor is left once every task has finished; the
\* iterator executor.map returned is never read, so the exceptions stored in
\* the futures are dropped.  generate_gyb_files goes on with the next helper
\* call or with generate_syntax_node_template_gyb_files, up to the prune loop
PoolExit ==
    /\ pc = "pool"
    /\ Shutdown(tasks)
    /\ tasks' = NoTasks
    /\ IF batch < Len(HelperSources)
         THEN /\ batch' = batch + 1
              /\ fs' = make_dir_if_needed(fs, BatchDestination(cmd, batch + 1))
              /\ pc' = "clear"
         ELSE /\ batch' = 0
              /\ fs' = make_dir_if_needed(fs, ExpansionDestination(cmd))
              /\ pc' = "template_clear"
    /\ UNCHANGED << tools, src, broken, denied, scratch, inflight, runs, cmd, ann, kind,
                    copied, deleted, raised, reported, last, edited >>

-----------------------------------------------------------------------------
(* generate_syntax_node_template_gyb_files.                                *)

\* one rm of the prune loop over template_destination
TemplateClearRm ==
    /\ pc = "template_clear"
    /\ \E f \in StaleTemplateFiles(fs, ExpansionDestination(cmd)) :
         IF RmFails(denied, ExpansionDestination(cmd), f)
           THEN /\ Raise(RmCommand(f, ExpansionDestination(cmd)))
                /\ UNCHANGED << fs, deleted >>
           ELSE /\ fs' = Rm(fs, ExpansionDestination(cmd), f)
                /\ deleted' = deleted \cup { << ExpansionDestination(cmd), f >> }
                /\ UNCHANGED << cmd, ann, pc, batch, tasks, kind, raised, reported,
                                last, edited >>
    /\ UNCHANGED << tools, src, broken, denied, scratch, inflight, runs, copied >>

\* the prune loop is over; the loop over BASE_KIND_FILES starts
TemplateClearDone ==
    /\ pc = "template_clear"
    /\ StaleTemplateFiles(fs, ExpansionDestination(cmd)) = {}
    /\ kind' = 1
    /\ pc' = "kind_gyb"
    /\ UNCHANGED << tools, src, broken, denied, fs, scratch, inflight, runs, cmd, ann, batch,
                    tasks, copied, deleted, raised, reported, last, edited >>

\* the gyb step of generate_single_gyb_file for the current base kind
KindGyb ==
    /\ pc = "kind_gyb"
    /\ LET base_kind == BaseKinds[kind]
           output_file_name == BASE_KIND_FILES[base_kind]
           gyb_file == << SWIFTSYNTAX_DIR, TemplateGybFile >>
           additional_gyb_flags == << EmitKindFlag(base_kind) >>
           gyb_command == GybCommand(gyb_file, output_file_name, ann, additional_gyb_flags)
       IN  IF GybFails(broken, gyb_file, additional_gyb_flags)
             THEN /\ Raise(gyb_command)
                  /\ UNCHANGED scratch
             ELSE /\ scratch' = PutFile(scratch, output_file_name, GybOutput(gyb_command))
                  /\ pc' = "kind_rsync"
                  /\ UNCHANGED << cmd, ann, batch, tasks, kind, raised, reported,
                                  last, edited >>
    /\ UNCHANGED << tools, src, broken, denied, fs, inflight, runs, copied, deleted >>

\* the rsync step of generate_single_gyb_file for the current base kind
\* starts: rsync has a file to write and transfers it
KindTransfer ==
    /\ pc = "kind_rsync"
    /\ LET output_file_name == BASE_KIND_FILES[BaseKinds[kind]]
           destination == ExpansionDestination(cmd)
       IN  /\ << destination, output_file_name >> \notin inflight
           /\ RsyncTransfers(denied, fs, scratch, output_file_name, destination)
           /\ inflight' = inflight \cup { << destination, output_file_name >> }
           /\ fs' = RsyncTransfer(fs, scratch, output_file_name, destination)
    /\ UNCHANGED << tools, src, broken, denied, scratch, runs, cmd, ann, pc, batch,
                    tasks, kind, copied, deleted, raised, reported, last, edited >>

\* the rsync step of generate_single_gyb_file for the current base kind ends;
\* after the last kind generate_gyb_files returns: the generate command is
\* done, verify_generated_files goes on to compare
KindRsync ==
    /\ pc = "kind_rsync"
    /\ LET output_file_name == BASE_KIND_FILES[BaseKinds[kind]]
           destination == ExpansionDestination(cmd)
       IN  /\ \/ << destination, output_file_name >> \in inflight
              \/ ~RsyncTransfers(denied, fs, scratch, output_file_name, destination)
           /\ inflight' = inflight \ { << destination, output_file_name >> }
           /\ IF RsyncFails(denied, fs, scratch, output_file_name, destination)
             THEN /\ Raise(RsyncCommand(output_file_name, destination))
                  /\ UNCHANGED << fs, copied >>
             ELSE /\ fs' = Rsync(fs, scratch, output_file_name, destination)
                  /\ copied' = IF RsyncWrites(fs, scratch, output_file_name, destination)
                                 THEN copied \cup { << destination, output_file_name >> }
                                 ELSE copied
                  /\ UNCHANGED << raised, reported >>
                  /\ IF kind < Len(BaseKinds)
                       THEN /\ kind' = kind + 1
                            /\ pc' = "kind_gyb"
                            /\ UNCHANGED << cmd, ann, batch, tasks, last, edited >>
                       ELSE IF cmd = "generate"
                              THEN Exit(0)
                              ELSE /\ pc' = "diff"
                                   /\ batch' = 1
                                   /\ kind' = 0
                                   /\ UNCHANGED << cmd, ann, tasks, last, edited >>
    /\ UNCHANGED << tools, src, broken, denied, scratch, runs, deleted >>

-----------------------------------------------------------------------------
(* verify_generated_files, after generate_gyb_files.                       *)

\* one check_generated_files_match call; diff exits non-zero on a difference
Diff ==
    /\ pc = "diff"
    /\ LET self_generated_dir == SelfGeneratedDir(HelperSources[batch])
           user_generated_dir == UserGeneratedDir(HelperSources[batch])
       IN  IF check_generated_files_match(fs, self_generated_dir, user_generated_dir)
             THEN /\ UNCHANGED << raised, reported >>
                  /\ IF batch < Len(HelperSources)
                       THEN /\ batch' = batch + 1
                            /\ UNCHANGED << cmd, ann, pc, tasks, kind, last, edited >>
                       ELSE Exit(0)
             ELSE Raise(DiffCommand(self_generated_dir, user_generated_dir))
    /\ UNCHANGED << tools, src, broken, denied, fs, scratch, inflight, runs, copied, deleted >>

-----------------------------------------------------------------------------
(* The process and its children are killed.                                *)

\* the exit status of a process killed by SIGKILL
Killed == 137

\* the script and the rsync processes it waits for are killed while a transfer
\* is under way; the temporary files of rsync are left behind.  The session
\* ends with the kill: no further command is run
Kill ==
    /\ pc # "idle"
    /\ inflight # {}
    /\ inflight' = {}
    /\ runs' = MaxRuns
    /\ Exit(Killed)
    /\ UNCHANGED << tools, src, broken, denied, fs, scratch, copied, deleted,
                    raised, reported >>

-----------------------------------------------------------------------------
(* The user, between two commands.                                         *)

\* a template is deleted from its source directory
DeleteTemplate(sources_dir, gyb_file) ==
    /\ pc = "idle"
    /\ 0 < runs
    /\ runs < MaxRuns
    /\ gyb_file \in src[sources_dir]
    /\ src' = [ src EXCEPT ![sources_dir] = @ \ { gyb_file } ]
    /\ edited' = TRUE
    /\ UNCHANGED << tools, broken, denied, fs, scratch, inflight, runs, cmd, ann, pc, batch,
                    tasks, kind, copied, deleted, raised, reported, last >>

-----------------------------------------------------------------------------

Next ==
    \/ \E add_source_locations \in BOOLEAN :
         generate_source_code_command(add_source_locations)
    \/ verify_source_code_command
    \/ ClearRm
    \/ Submit
    \/ \E g \in DOMAIN tasks : WorkerGyb(g)
    \/ \E g \in DOMAIN tasks : WorkerTransfer(g)
    \/ \E g \in DOMAIN tasks : WorkerRsync(g)
    \/ PoolExit
    \/ TemplateClearRm
    \/ TemplateClearDone
    \/ KindGyb
    \/ KindTransfer
    \/ KindRsync
    \/ Diff
    \/ Kill
    \/ \E d \in SourceDirs : \E g \in src[d] : DeleteTemplate(d, g)

Spec == Init /\ [][Next]_vars

-----------------------------------------------------------------------------
(* Other processes running the script on the same machine.                 *)

\* temp_files_dir is tempfile.gettempdir(), the temporary directory of the
\* system, the same path in every process.  While the command runs, a
\* verify-source-code of another process, on the same checkout, runs the gyb
\* step of generate_single_gyb_file for the template gyb_file of sources_dir
\* with add_source_locations=False and writes temp_files_dir/output_file_name.
\* What that process synchronizes goes to its own tempfile.mkdtemp()
\* directories, which no other process sees
PeerGyb(sources_dir, gyb_file) ==
    /\ cmd # "none"
    /\ gyb_file \in GybFiles(src, sources_dir)
    /\ LET gyb_file_path == << sources_dir, gyb_file >>
           output_file_name == OutputFileName(gyb_file)
           gyb_command == GybCommand(gyb_file_path, output_file_name, FALSE, << >>)
       IN  /\ ~GybFails(broken, gyb_file_path, << >>)
           /\ scratch' = PutFile(scratch, output_file_name, GybOutput(gyb_command))
    /\ UNCHANGED << tools, src, broken, denied, fs, inflight, runs, cmd, ann, pc, batch,
                    tasks, kind, copied, deleted, raised, reported, last, edited >>

\* a step of the command or of a concurrent run of another process
NextConcurrent ==
    \/ Next
    \/ \E d \in SourceDirs : \E g \in src[d] : PeerGyb(d, g)

SpecConcurrent == Init /\ [][NextConcurrent]_vars

-----------------------------------------------------------------------------
(* Vocabulary of the properties.                                           *)

\* the committed destination trees: every directory that is no temporary one
UserTree == [ d \in { p \in DOMAIN fs : p[1] # "tmp" } |-> fs[d] ]

\* the running command is a generate that directly follows a generate with the
\* same annotate flag that ran to its end and exited with status 0, with no
\* edit of the source tree in between
SecondGenerate ==
    /\ cmd = "generate"
    /\ last.cmd = "generate"
    /\ last.ann = ann
    /\ last.exit = 0
    /\ ~edited

\* the latest command was the given one and has run to its end: it has
\* returned or exited, it was not killed
Ended(command) == pc = "idle" /\ last.cmd = command /\ last.exit # Killed

\* the non-hidden files below root, each with its place, name and content
FilesBelow(root) ==
    UNION { { << SubSeq(d, Len(root) + 1, Len(d)), n, fs[d][n] >> :
                n \in { m \in DOMAIN fs[d] : ~IsDotFile(m) } } :
            d \in { p \in DOMAIN fs :
                      Len(p) >= Len(root) /\ SubSeq(p, 1, Len(root)) = root } }

-----------------------------------------------------------------------------
(* C1 *)

-----------------------------------------------------------------------------
(* C2 *)

\* the running command is a verify that directly follows a generate that
\* exited 0, with no edit of the source tree in between
VerifyAfterGenerate ==
    /\ cmd = "verify"
    /\ last.cmd = "generate"
    /\ last.exit = 0
    /\ ~edited

\* C2 (round trip): a verify run started right after a generate run that
\* reported success on the same source tree, whatever the initial destination
\* trees, ends with exit status 0.  The claim is stated here for the generate
\* runs without source locations, the ones verify_generated_files repeats:
\* after a generate run with --add-source-locations every rendered file
\* differs from what verify renders.  A verify that is killed has no result.
C2_RoundTrip ==
    [][ (VerifyAfterGenerate /\ ~last.ann /\ pc' = "idle" /\ last'.exit # Killed)
            => last'.exit = 0 ]_vars

-----------------------------------------------------------------------------
(* C3 *)

\* the gyb and rsync commands of the worker pool that raised in the latest run
PoolFailures ==
    { c \in raised :
        \/ c.tool = "gyb" /\ c.file[2] # TemplateGybFile
        \/ c.tool = "rsync" /\ c.file[1][Len(c.file[1])] # "syntax_nodes" }

\* C3 (no swallowed failure): when a generate command has ended and the gyb
\* or rsync step of a template handed to the worker pool failed in it, the
\* command exited non-zero and the failure was reported.
C3_FailureSurfaced ==
    (Ended("generate") /\ PoolFailures # {}) =>
        (last.exit # 0 /\ PoolFailures \subseteq reported)

-----------------------------------------------------------------------------
(* C4 *)

\* the gyb commands of the worker pool that raised in the latest run
PoolRenderFailures == { c \in PoolFailures : c.tool = "gyb" }

\* the output of template gyb_file of sources_dir is in the committed
\* destination of sources_dir, as gyb rendered it in the latest run
Synchronized(sources_dir, gyb_file) ==
    LET destination == UserGeneratedDir(sources_dir)
        name == OutputFileName(gyb_file)
    IN  /\ name \in DOMAIN fs[destination]
        /\ fs[destination][name].tmpl = << sources_dir, gyb_file >>
        /\ fs[destination][name].flags = LineDirectiveFlags(last.ann)

\* C4 (failure isolation): when a generate command has ended in which exactly
\* one template of a source directory failed to render, every other template
\* of that directory has its output synchronized into the destination, and
\* the run has reported exactly one render failure, that of the failing
\* template.
C4_FailureIsolation ==
    (Ended("generate") /\ Cardinality(PoolRenderFailures) = 1) =>
        \A c \in PoolRenderFailures :
            Cardinality(GybFiles(src, c.file[1])) >= 2 =>
                /\ \A g \in GybFiles(src, c.file[1]) \ { c.file[2] } :
                     Synchronized(c.file[1], g)
                /\ { r \in reported : r.tool = "gyb" } = { c }

-----------------------------------------------------------------------------
(* C5 *)

\* C5 (divergence detection): when verify has ended with exit status 0, each
\* committed destination tree holds the same non-hidden files, with the same
\* content, recursively, as the tree verify generated from the templates; a
\* missing file, an extra file or a differing content in one of them makes
\* the exit status non-zero.
C5_DivergenceDetected ==
    (Ended("verify") /\ last.exit = 0) =>
        \A sd \in SourceDirs :
            FilesBelow(SelfGeneratedDir(sd)) = FilesBelow(UserGeneratedDir(sd))

\* verify has ended with exit status 0 on committed trees that hold the output
\* of a template
C5_Witness ==
    /\ Ended("verify")
    /\ last.exit = 0
    /\ \E sd \in SourceDirs :
         \E n \in DOMAIN fs[UserGeneratedDir(sd)] : ~IsDotFile(n)

-----------------------------------------------------------------------------
(* C6 *)

\* the step belongs to a verify command: it starts it or is taken within it
VerifyStep ==
    \/ cmd = "verify"
    \/ cmd' = "verify"
    \/ runs' # runs /\ last'.cmd = "verify"

\* C6 (verify is read-only): no step of a verify command, however it ends,
\* creates, deletes or overwrites anything below a committed gyb_generated
\* directory; everything its nested generation deletes or writes is in the
\* temporary directories.
C6_VerifyReadOnly ==
    [][ VerifyStep =>
          /\ UserTree' = UserTree
          /\ \A x \in copied' \cup deleted' : x[1][1] = "tmp" ]_vars

\* verify has generated into its temporary directories and is comparing them
\* with committed trees that hold files
C6_Witness ==
    /\ cmd = "verify"
    /\ pc = "diff"
    /\ copied # {}
    /\ \E sd \in SourceDirs : DOMAIN fs[UserGeneratedDir(sd)] # {}

-----------------------------------------------------------------------------
(* C7 *)

\* no committed destination holds a file rendered from a template that is no
\* longer in the source directory
NoOrphanLeft ==
    \A sd \in SourceDirs :
        \A n \in DOMAIN fs[UserGeneratedDir(sd)] :
            LET content == fs[UserGeneratedDir(sd)][n]
            IN  content.tmpl # << >> => content.tmpl[2] \in src[sd]

\* no rm of the run removed a file named like a base kind file
AllowListKept == \A x \in deleted : x[2] \notin BaseKindFileValues

\* C7 (orphan pruning): when a generate run that follows a successful generate
\* run and the deletion of a template ends with success, every output the
\* earlier run materialized from a template since deleted, whatever its name
\* or extension, is gone from its destination, and the run has removed no
\* allow-listed base kind file.
C7_OrphanPruning ==
    [][ ( /\ cmd = "generate"
          /\ last.cmd = "generate"
          /\ last.exit = 0
          /\ edited
          /\ pc' = "idle"
          /\ last'.exit = 0 ) => (NoOrphanLeft' /\ AllowListKept') ]_vars

-----------------------------------------------------------------------------
(* C8 *)

\* C8 (allow-list protection): no prune step, neither
\* clear_gyb_files_from_previous_run on a batch destination nor the prune loop
\* of the expansion destination, removes a file whose name is in
\* BASE_KIND_FILES.values(), whether or not a template maps to that name.
C8_AllowListProtected ==
    \A x \in deleted : x[2] \notin BaseKindFileValues

-----------------------------------------------------------------------------
(* C9 *)

NonHidden(dir) == { n \in DOMAIN fs[dir] : ~IsDotFile(n) }

\* C9 (destination-tree invariant): when a generate run has ended with
\* success, whatever the destinations held before, each batch destination
\* holds one file per discovered template and, besides allow-listed files,
\* nothing else; the expansion destination holds the base kind files and
\* nothing else; no destination holds the output of a template that no longer
\* exists.
C9_DestinationInvariant ==
    (Ended("generate") /\ last.exit = 0 /\ ~edited) =>
        /\ \A sd \in SourceDirs :
             NonHidden(UserGeneratedDir(sd)) \ BaseKindFileValues =
                 { OutputFileName(g) : g \in GybFiles(src, sd) } \ BaseKindFileValues
        /\ NonHidden(TemplateDestination(None)) = BaseKindFileValues
        /\ NoOrphanLeft

-----------------------------------------------------------------------------
(* C10 *)

\* the -DEMIT_KIND flag each base kind is to be rendered with
ExpectedKindFlag ==
    [ Decl    |-> "-DEMIT_KIND=Decl",
      Expr    |-> "-DEMIT_KIND=Expr",
      Pattern |-> "-DEMIT_KIND=Pattern",
      Stmt    |-> "-DEMIT_KIND=Stmt",
      Syntax  |-> "-DEMIT_KIND=Syntax",
      Type    |-> "-DEMIT_KIND=Type" ]

\* destination holds, for each base kind, its file as rendered from the
\* expansion template with the flag of that kind, and no other .swift file
Expanded(destination, add_source_locations) ==
    /\ \A k \in DOMAIN BASE_KIND_FILES :
         /\ BASE_KIND_FILES[k] \in DOMAIN fs[destination]
         /\ fs[destination][BASE_KIND_FILES[k]] =
              [ tmpl  |-> << SWIFTSYNTAX_DIR, TemplateGybFile >>,
                flags |-> LineDirectiveFlags(add_source_locations)
                            \o << ExpectedKindFlag[k] >> ]
    /\ { n \in DOMAIN fs[destination] : EndsWith(n, ".swift") } = BaseKindFileValues

\* C10 (multi-output expansion): generate_syntax_node_template_gyb_files
\* renders the expansion template once per base kind with -DEMIT_KIND=<kind>
\* into pairwise distinct files, each holding the content rendered with its own
\* kind; its prune step removes no base kind file of the expansion
\* destination, and once the expansion is done no other .swift file is left
\* there.
C10_MultiOutputExpansion ==
    /\ Cardinality(BaseKindFileValues) = Len(BaseKinds)
    /\ \A x \in deleted :
         x[1][Len(x[1])] = "syntax_nodes" => x[2] \notin BaseKindFileValues
    /\ (Ended("generate") /\ last.exit = 0) =>
         Expanded(TemplateDestination(None), last.ann)
    /\ (cmd = "verify" /\ pc = "diff") =>
         Expanded(ExpansionDestination("verify"), FALSE)

\* a generate run has ended with success whose expansion pruned a .swift file
\* that is no base kind file and overwrote a base kind file
C10_Witness ==
    /\ Ended("generate")
    /\ last.exit = 0
    /\ \E x \in deleted : x[1] = TemplateDestination(None)
    /\ \A k \in DOMAIN BASE_KIND_FILES :
         << TemplateDestination(None), BASE_KIND_FILES[k] >> \in copied

-----------------------------------------------------------------------------
(* C11 *)

\* the step ends the sync step of the pool unit of g, and rsync has not failed
PoolSynced(g) ==
    /\ pc = "pool"
    /\ g \in DOMAIN tasks
    /\ tasks[g] = "generated"
    /\ pc' = "pool"
    /\ tasks'[g] = "done"

\* the step ends the sync step of the current base kind, and rsync has not
\* failed
KindSynced ==
    /\ pc = "kind_rsync"
    /\ pc' # "kind_rsync"
    /\ ~(pc' = "idle" /\ last'.exit # 0)

\* what the claim says of a sync of scratch/n to d/n that ends in this step
SyncContract(d, n) ==
    LET differs == n \notin DOMAIN fs[d] \/ fs[d][n] # scratch[n]
    IN  /\ differs => << d, n >> \in copied'
        /\ ~differs => (copied' = copied /\ fs' = fs)
        /\ copied' \subseteq copied \cup { << d, n >> }
        /\ n \in DOMAIN fs'[d]
        /\ fs'[d][n] = scratch[n]

\* C11 (sync contract): a sync step that ends without failing has written the
\* destination file if and only if the file was absent or its content differed
\* from the scratch file's; when they were equal, the destination tree and the
\* record of written files (content and modification time) are unchanged; in
\* both cases the destination file then holds the content of the scratch file.
C11_SyncContract ==
    [][ /\ \A g \in DOMAIN tasks :
             PoolSynced(g) =>
                 SyncContract(BatchDestination(cmd, batch), OutputFileName(g))
        /\ KindSynced =>
             SyncContract(ExpansionDestination(cmd), BASE_KIND_FILES[BaseKinds[kind]])
      ]_vars

\* a generate that follows a successful generate with the other annotate flag
\* has overwritten a destination file that was there with another content
C11_Witness ==
    /\ cmd = "generate"
    /\ last.cmd = "generate"
    /\ last.exit = 0
    /\ last.ann # ann
    /\ ~edited
    /\ pc = "pool"
    /\ \E g \in DOMAIN tasks :
         /\ tasks[g] = "done"
         /\ << BatchDestination(cmd, batch), OutputFileName(g) >> \in copied
         /\ fs[BatchDestination(cmd, batch)][OutputFileName(g)] = scratch[OutputFileName(g)]

-----------------------------------------------------------------------------
(* C12 *)

\* the file holds a whole content, not the beginning of one
Complete(file) == DOMAIN file = { "tmpl", "flags" }

\* C12 (atomic per-file replacement): in every step of every execution, a step
\* in which the process is killed during a sync included, each file a
\* destination directory holds after the step either is the file it held before
\* the step, unchanged, or holds the whole content of the scratch file of the
\* same name; no state shows a truncated or partially written destination file.
C12_AtomicReplace ==
    [][ \A d \in DOMAIN fs \cap DOMAIN fs' :
            \A n \in DOMAIN fs'[d] :
                /\ Complete(fs'[d][n])
                /\ \/ n \in DOMAIN fs[d] /\ fs'[d][n] = fs[d][n]
                   \/ n \in DOMAIN scratch /\ fs'[d][n] = scratch[n]
      ]_vars

\* the process was killed while rsync was replacing a destination file: the
\* file still holds its previous content, the new one is in the scratch file
C12_Witness ==
    /\ pc = "idle"
    /\ last.exit = Killed
    /\ \E d \in UserDirs \cap DOMAIN fs :
         \E n \in DOMAIN fs[d] \cap DOMAIN scratch : fs[d][n] # scratch[n]

-----------------------------------------------------------------------------
(* C13 *)

\* the rm commands that raised in the latest run
PruneFailures == { c \in raised : c.tool = "rm" }

\* C13 (prune failures are non-fatal): when a generate command has ended in
\* which the removal of an orphaned file failed and nothing else did, the
\* failure was reported, the command has not failed, and the generation phase
\* has run for every template: every output is synchronized and the base kind
\* files are expanded.
C13_PruneFailureNonFatal ==
    (Ended("generate") /\ PruneFailures # {} /\ raised = PruneFailures) =>
        /\ last.exit = 0
        /\ PruneFailures \subseteq reported
        /\ \A sd \in SourceDirs : \A g \in GybFiles(src, sd) : Synchronized(sd, g)
        /\ Expanded(TemplateDestination(None), last.ann)

-----------------------------------------------------------------------------
(* C14 *)

\* the rsync commands that raised in the latest run
SyncFailures == { c \in raised : c.tool = "rsync" }

\* C14 (sync failures are fatal): when a generate command has ended in which
\* the copy of a scratch file to its destination failed, for a unit of the
\* worker pool or of the loop over the base kinds, the command has ended with
\* a non-zero exit status.
C14_SyncFailureFatal ==
    (Ended("generate") /\ SyncFailures # {}) => last.exit # 0

-----------------------------------------------------------------------------
(* C15 *)

\* C15 (up-front environment checks): a command started while gyb or rsync is
\* missing ends at once with exit status 1, before any prune, render or sync
\* step: the committed destination trees and the scratch files are what they
\* were, nothing was removed or written, and the temporary directories a
\* verify has made are empty.
C15_UpFrontChecks ==
    [][ (pc = "idle" /\ runs' = runs + 1 /\ ~({ "gyb", "rsync" } \subseteq tools)) =>
          /\ pc' = "idle"
          /\ last'.exit = 1
          /\ UserTree' = UserTree
          /\ scratch' = scratch
          /\ copied' = {}
          /\ deleted' = {}
          /\ \A d \in DOMAIN fs' :
               d[1] = "tmp" => (fs'[d] = EmptyDir \/ (d \in DOMAIN fs /\ fs'[d] = fs[d]))
      ]_vars

\* a generate has ended with exit status 1 for a missing tool, on destination
\* trees that hold files
C15_Witness ==
    /\ Ended("generate")
    /\ last.exit = 1
    /\ ~({ "gyb", "rsync" } \subseteq tools)
    /\ \E d \in UserDirs \cap DOMAIN fs : DOMAIN fs[d] # {}

-----------------------------------------------------------------------------
(* C16 *)

\* C16 (render failure payload): for every gyb command whose failure the run
\* has reported, the report carries the command as it was invoked and the
\* output the renderer wrote in that invocation.
C16_RenderFailurePayload ==
    \A c \in reported :
        c.tool = "gyb" =>
            \E p \in Printed : p.executing = c /\ p.output = Output(c)

-----------------------------------------------------------------------------
(* C17 *)

\* the step removes, or fails to remove, a file of directory d
Pruning(d) ==
    \E n \in DOMAIN fs[d] :
        \/ << d, n >> \in deleted' \ deleted
        \/ RmCommand(n, d) \in raised' \ raised

\* no unit of the run has rendered or synchronized an output for directory d
NoUnitYet(d) ==
    /\ tasks = NoTasks
    /\ kind = 0
    /\ inflight = {}
    /\ \A x \in copied : x[1] # d
    /\ \A c \in raised : ~(c.tool = "rsync" /\ c.file[1] = d)

\* the step is one of a unit that targets directory d
UnitActs(d) ==
    \/ pc = "pool" /\ pc' = "pool" /\ d = BatchDestination(cmd, batch)
    \/ pc \in { "kind_gyb", "kind_rsync" } /\ d = ExpansionDestination(cmd)

\* the prune step of directory d has nothing left to remove
PruneOver(d) ==
    IF pc = "pool"
        THEN StaleGybFiles(fs, src, HelperSources[batch], d) = {}
        ELSE StaleTemplateFiles(fs, d) = {}

\* the unit of template g of sd has ended in the nested generation of verify
UnitEnded(sd, g) ==
    \/ OutputFileName(g) \in DOMAIN fs[SelfGeneratedDir(sd)]
    \/ \E c \in raised :
         \/ c.tool = "gyb" /\ c.file = << sd, g >>
         \/ c.tool = "rsync" /\ c.file = << SelfGeneratedDir(sd), OutputFileName(g) >>

\* C17 (phase ordering): a step that prunes a destination directory is taken
\* before any unit has rendered or synchronized for that directory; a step of a
\* unit that targets a directory is taken when the prune of that directory has
\* nothing left to remove; and when verify compares trees, every unit of the
\* four batches and of the kind expansion has ended and no step renders,
\* synchronizes or removes anything any more.
C17_PhaseOrdering ==
    [][ /\ \A d \in DOMAIN fs :
             /\ Pruning(d) => NoUnitYet(d)
             /\ UnitActs(d) => PruneOver(d)
        /\ pc = "diff" =>
             /\ tasks = NoTasks /\ kind = 0 /\ inflight = {}
             /\ \A sd \in SourceDirs : \A g \in GybFiles(src, sd) : UnitEnded(sd, g)
             /\ Expanded(ExpansionDestination("verify"), FALSE)
             /\ fs' = fs /\ scratch' = scratch
             /\ copied' = copied /\ deleted' = deleted
      ]_vars

\* a unit has synchronized its output into a directory from which the prune
\* step of the same run has removed a file
C17_Witness ==
    /\ pc = "pool"
    /\ \E x \in deleted : x[1] = BatchDestination(cmd, batch)
    /\ \E x \in copied : x[1] = BatchDestination(cmd, batch)

-----------------------------------------------------------------------------
(* C18 *)

\* C18 (barrier at the end of generating): generate_gyb_files_helper returns,
\* and the run goes on to the next prune step or to the kind expansion, only
\* when every unit of its worker pool has ended, with success or failure, and
\* no transfer is under way; outside the pool no unit of a batch is running.
C18_Barrier ==
    [][ /\ (pc = "pool" /\ pc' \notin { "pool", "idle" }) =>
             /\ \A g \in DOMAIN tasks : tasks[g] \in { "done", "raised" }
             /\ inflight = {}
        /\ pc # "pool" => tasks = NoTasks
        /\ pc \in { "clear", "template_clear", "kind_gyb", "diff" } => inflight = {}
      ]_vars

\* the first helper has returned after one of its units failed and another
\* one synchronized its output
C18_Witness ==
    /\ pc = "clear"
    /\ batch = 2
    /\ \E c \in raised : c.tool = "gyb" /\ c.file[1] = HelperSources[1]
    /\ \E x \in copied : x[1] = BatchDestination(cmd, 1)

-----------------------------------------------------------------------------
(* C19 *)

\* the units of the running pool that have not ended
Running == { g \in DOMAIN tasks : tasks[g] \in { "queued", "generated" } }

\* C19 (no write-write race inside a batch): two distinct templates of one
\* source directory have distinct output names, so two distinct units of the
\* running pool never have the same scratch file and destination file, and a
\* file being transferred is the output of exactly one running unit.
C19_NoWriteWriteRace ==
    /\ \A sd \in SourceDirs :
         \A g1, g2 \in GybFiles(src, sd) :
             g1 # g2 => OutputFileName(g1) # OutputFileName(g2)
    /\ \A g1, g2 \in DOMAIN tasks :
         g1 # g2 => OutputFileName(g1) # OutputFileName(g2)
    /\ pc = "pool" =>
         \A x \in inflight :
             Cardinality({ g \in Running : OutputFileName(g) = x[2] }) = 1

\* two units of one pool, whose templates differ only in the extension of
\* the output, have both rendered and are both synchronizing
C19_Witness ==
    /\ pc = "pool"
    /\ Cardinality(Running) = 2
    /\ Cardinality(inflight) = 2
    /\ \E g1, g2 \in Running : g1 # g2 /\ g1[1] = g2[1]

-----------------------------------------------------------------------------
(* C20 *)

\* the gyb commands of the loop over the base kinds that raised
KindRenderFailures ==
    { c \in raised : c.tool = "gyb" /\ c.file[2] = TemplateGybFile }

\* C20 (a render failure in the kind expansion does not abort the siblings):
\* when a generate command has ended in which rendering failed for a base
\* kind, the file of every other base kind is in the expansion destination, as
\* rendered in that run with the flag of its kind.
C20_KindFailureIsolation ==
    (Ended("generate") /\ KindRenderFailures # {}) =>
        \A k \in DOMAIN BASE_KIND_FILES :
            (\A c \in KindRenderFailures : c.out # BASE_KIND_FILES[k]) =>
                /\ BASE_KIND_FILES[k] \in DOMAIN fs[TemplateDestination(None)]
                /\ fs[TemplateDestination(None)][BASE_KIND_FILES[k]] =
                     [ tmpl  |-> << SWIFTSYNTAX_DIR, TemplateGybFile >>,
                       flags |-> LineDirectiveFlags(last.ann)
                                   \o << ExpectedKindFlag[k] >> ]

-----------------------------------------------------------------------------
(* C21 *)

\* what the running command renders for the template g of its current batch
PoolRendered(g) ==
    GybOutput(GybCommand(<< HelperSources[batch], g >>, OutputFileName(g), ann, << >>))

\* what the running command renders for its current base kind
KindRendered ==
    GybOutput(GybCommand(<< SWIFTSYNTAX_DIR, TemplateGybFile >>,
                         BASE_KIND_FILES[BaseKinds[kind]], ann,
                         << EmitKindFlag(BaseKinds[kind]) >>))

\* C21 (scratch privacy): the scratch location a run renders into is private
\* to the run, also when another run executes concurrently: no step of another
\* run writes a scratch file of this run, so when a sync step of the run ends
\* without failing, the destination file holds the content this same run
\* rendered for the unit.
C21_ScratchPrivacy ==
    [][ /\ \A g \in DOMAIN tasks :
             PoolSynced(g) =>
                 fs'[BatchDestination(cmd, batch)][OutputFileName(g)] = PoolRendered(g)
        /\ KindSynced =>
             fs'[ExpansionDestination(cmd)][BASE_KIND_FILES[BaseKinds[kind]]] = KindRendered
      ]_vars

-----------------------------------------------------------------------------
(* C22 *)

\* the temporary directories verify_generated_files has made that still exist
TempDirs == { d \in DOMAIN fs : d[1] = "tmp" }

\* C22 (scratch cleanup): when a generate or verify command has ended, with
\* success or with a failure, every scratch file and every temporary
\* destination tree a run has created is removed: the session starts with no
\* scratch file and no temporary directory, so none exists once a command has
\* ended.
C22_ScratchCleanup ==
    (Ended("generate") \/ Ended("verify")) =>
        /\ scratch = EmptyDir
        /\ TempDirs = {}

-----------------------------------------------------------------------------
(* C23 *)

\* the step is the return of clear_gyb_files_from_previous_run: its loop is
\* over and the helper goes on to submit its units
ClearReturns == pc = "clear" /\ pc' = "pool"

\* the name is the output of a template of sources_dir
IsTemplateOutput(name, sources_dir) ==
    GybFileOf(name) \in GybFiles(src, sources_dir)

\* the step is a rm of clear_gyb_files_from_previous_run that removes the
\* entry name of the batch destination
ClearRemoves(name) ==
    /\ pc = "clear"
    /\ << BatchDestination(cmd, batch), name >> \in deleted' \ deleted

\* C23 (prune deletes exactly the orphans): clear_gyb_files_from_previous_run
\* removes a file only if its name is not the output of a template of the
\* source directory, it removes no subdirectory entry such as syntax_nodes and
\* nothing below one, and when it returns every non-hidden file left in the
\* destination directory is the output of a template of the source directory.
C23_PruneExact ==
    [][ pc = "clear" =>
          /\ \A name \in ListDir(fs, BatchDestination(cmd, batch)) :
               ClearRemoves(name) =>
                   /\ ~IsTemplateOutput(name, HelperSources[batch])
                   /\ name \in DOMAIN fs[BatchDestination(cmd, batch)]
          /\ \A d \in DOMAIN fs \cap DOMAIN fs' :
               d # BatchDestination(cmd, batch) => fs'[d] = fs[d]
          /\ ClearReturns =>
               \A name \in NonHidden(BatchDestination(cmd, batch)) :
                   IsTemplateOutput(name, HelperSources[batch])
      ]_vars

-----------------------------------------------------------------------------
(* C24 *)

\* the files of directory dir are left as they are, but for the file name
SameBut(dir, dir_after, name) ==
    /\ DOMAIN dir_after \ { name } = DOMAIN dir \ { name }
    /\ \A m \in DOMAIN dir \ { name } : dir_after[m] = dir[m]

\* the step changes no scratch file but scratch/n and no destination file
\* but d/n, writes no other file and removes none
Frame(d, n) ==
    /\ SameBut(scratch, scratch', n)
    /\ DOMAIN fs' = DOMAIN fs
    /\ \A e \in DOMAIN fs :
         IF e = d THEN SameBut(fs[e], fs'[e], n) ELSE fs'[e] = fs[e]
    /\ copied' \subseteq copied \cup { << d, n >> }
    /\ deleted' = deleted

\* the step leaves the destination file d/n as it is: its presence, its
\* content and its modification time
Kept(d, n) ==
    /\ (n \in DOMAIN fs'[d]) = (n \in DOMAIN fs[d])
    /\ n \in DOMAIN fs[d] => fs'[d][n] = fs[d][n]
    /\ << d, n >> \notin copied' \ copied
    /\ << d, n >> \notin inflight'

\* the render step of the pool unit of g has failed in the running helper
RenderFailed(g) ==
    /\ tasks[g] = "raised"
    /\ \E c \in raised : c.tool = "gyb" /\ c.file = << HelperSources[batch], g >>

\* C24 (frame of one generate unit): every step of an invocation of
\* generate_single_gyb_file changes at most the scratch file of its
\* output_file_name and at most the destination file
\* destination/output_file_name, and removes nothing; when the render step
\* fails the sync step is not executed: the unit takes no further step and the
\* destination file keeps its content and modification time.
C24_UnitFrame ==
    [][ /\ (pc = "pool" /\ pc' = "pool") =>
             /\ \E g \in DOMAIN tasks :
                  /\ Frame(BatchDestination(cmd, batch), OutputFileName(g))
                  /\ \A h \in DOMAIN tasks \ { g } : tasks'[h] = tasks[h]
             /\ \A g \in DOMAIN tasks :
                  (RenderFailed(g) \/ (tasks[g] = "queued" /\ tasks'[g] = "raised")) =>
                      /\ Kept(BatchDestination(cmd, batch), OutputFileName(g))
                      /\ tasks'[g] = "raised"
        /\ pc \in { "kind_gyb", "kind_rsync" } =>
             Frame(ExpansionDestination(cmd), BASE_KIND_FILES[BaseKinds[kind]])
        /\ (pc = "kind_gyb" /\ pc' = "idle") =>
             Kept(ExpansionDestination(cmd), BASE_KIND_FILES[BaseKinds[kind]])
      ]_vars

\* in a pool, the render step of one unit has failed and the unit has left
\* its destination file absent, while another unit has rendered and
\* synchronized its own file next to it
C24_Witness ==
    /\ pc = "pool"
    /\ \E g1, g2 \in DOMAIN tasks :
         /\ RenderFailed(g1)
         /\ OutputFileName(g1) \notin DOMAIN fs[BatchDestination(cmd, batch)]
         /\ tasks[g2] = "done"
         /\ << BatchDestination(cmd, batch), OutputFileName(g2) >> \in copied
         /\ OutputFileName(g2) \in DOMAIN scratch

-----------------------------------------------------------------------------
(* C25 *)

\* the step neither removes nor changes the destination file x
Survives(x) ==
    /\ x \notin deleted'
    /\ x[1] \in DOMAIN fs'
    /\ x[2] \in DOMAIN fs'[x[1]]
    /\ fs'[x[1]][x[2]] = fs[x[1]][x[2]]

\* C25 (no step of a run destroys the output of an earlier step): in one
\* execution of generate_gyb_files, for generate with the default destinations
\* and for verify with its four temporary ones, a file that a unit of the run
\* has synchronized is neither removed by a later prune step, of a batch or of
\* the kind expansion, nor overwritten by a later sync; and no step of
\* clear_gyb_files_from_previous_run changes a directory other than the one
\* it prunes, the syntax_nodes subdirectory of the SwiftSyntax destination
\* included.
C25_EarlierOutputKept ==
    [][ /\ cmd # "none" => \A x \in copied : Survives(x)
        /\ pc = "clear" =>
             \A d \in DOMAIN fs :
                 d # BatchDestination(cmd, batch) =>
                     /\ d \in DOMAIN fs'
                     /\ fs'[d] = fs[d]
                     /\ \A x \in deleted' \ deleted : x[1] # d
      ]_vars

\* a generate run that follows another one has pruned a file of the
\* SwiftSyntax destination next to a syntax_nodes directory that holds base
\* kind files, a later batch has synchronized a file, and the kind expansion
\* has synchronized its first file
C25_Witness ==
    /\ cmd = "generate"
    /\ pc = "kind_gyb"
    /\ kind = 2
    /\ \E x \in deleted : x[1] = BatchDestination(cmd, 1)
    /\ \E x \in copied : x[1] = BatchDestination(cmd, 2)
    /\ << ExpansionDestination(cmd), BASE_KIND_FILES["Decl"] >> \in copied
    /\ BASE_KIND_FILES["Expr"] \in DOMAIN fs[ExpansionDestination(cmd)]

====
